---- MODULE Spec2Model ----
(***************************************************************************)
(* A model of gpytorch's LazyEvaluatedKernelTensor                         *)
(* (src/gpytorch/lazy/lazy_evaluated_kernel_tensor.py): a lazy node over   *)
(* two point batches x1, x2 and a kernel, with memoized shape, diagonal    *)
(* and forced evaluation, structural transforms that rewrite the inputs,   *)
(* and the checkpointed (row-chunked) matmul and gradient paths.           *)
(*                                                                         *)
(* Tensors are explicit: a shape and a value for every index tuple.        *)
(* Optional values (Python None) are <<>> for None and <<v>> for v.        *)
(***************************************************************************)
EXTENDS Integers, Sequences, FiniteSets, TLC

VARIABLES debug, checkpoint_kernel, lazily_evaluate_kernels,
          kernels, nodes, calls, ret, twin

vars == <<debug, checkpoint_kernel, lazily_evaluate_kernels, kernels, nodes, calls, ret, twin>>

---------------------------------------------------------------------------
(* Bounds of the model.                                                    *)

\* largest size of a batch dimension drawn for x1, x2 and the kernel
MaxBatch == 3
\* largest number of points (rows) drawn for x1 and x2
MaxRows == 2
\* largest feature dimension drawn for x1 and x2
MaxFeat == 2
\* largest outputs-per-input factor drawn for a kernel
MaxOut == 2
\* largest checkpoint chunk size drawn
MaxSplit == 2
\* largest number of nodes kept on the heap
MaxNodes == 2
\* largest number of kernel invocations recorded before the model stops
MaxCalls == 3
\* largest slice bound (and smallest, negated) drawn for an index
MaxSlice == 2

---------------------------------------------------------------------------
(* Python values.                                                          *)

None == <<>>

Some(v) == <<v>>

Min(a, b) == IF a < b THEN a ELSE b

Max(a, b) == IF a > b THEN a ELSE b

\* the last k elements of s, and s without its last k elements
LastN(s, k) == SubSeq(s, Len(s) - k + 1, Len(s))

DropLastN(s, k) == SubSeq(s, 1, Len(s) - k)

---------------------------------------------------------------------------
(* Tensors: [shape, val], val a function of the 1-based index tuples.      *)

RECURSIVE Indices(_)
Indices(shape) ==
    IF shape = <<>> THEN {<<>>}
    ELSE {<<i>> \o r : i \in 1..Head(shape), r \in Indices(Tail(shape))}

\* x.shape[:-2], x.size(-2), x.size(-1)
BatchOf(t) == DropLastN(t.shape, 2)

Rows(t) == t.shape[Len(t.shape) - 1]

Feat(t) == t.shape[Len(t.shape)]

\* a slice object slice(start, stop, step), each None or an integer
Slice(start, stop, step) == [kind |-> "slice", start |-> start, stop |-> stop, step |-> step, i |-> 0]

\* an integer index
IntIndex(i) == [kind |-> "int", start |-> None, stop |-> None, step |-> None, i |-> i]

\* slice(None, None, None), which is also linear_operator's _noop_index
_noop_index == Slice(None, None, None)

SliceStep(sl) == IF sl.step = None THEN 1 ELSE sl.step[1]

\* Python's slice.indices(len) for a positive step: the clamped start and stop
SliceStart(sl, len) ==
    IF sl.start = None THEN 0
    ELSE IF sl.start[1] < 0 THEN Max(sl.start[1] + len, 0) ELSE Min(sl.start[1], len)

SliceStop(sl, len) ==
    IF sl.stop = None THEN len
    ELSE IF sl.stop[1] < 0 THEN Max(sl.stop[1] + len, 0) ELSE Min(sl.stop[1], len)

\* the 1-based positions a slice selects from a dimension of size len, in order
SlicePositions(sl, len) ==
    LET a == SliceStart(sl, len)
        b == SliceStop(sl, len)
        k == SliceStep(sl)
        cnt == IF b > a THEN (b - a + k - 1) \div k ELSE 0
    IN [n \in 1..cnt |-> a + (n - 1) * k + 1]

\* the 1-based positions an index item selects; an integer may be negative
ItemPositions(it, len) ==
    IF it.kind = "int"
    THEN <<(IF it.i < 0 THEN it.i + len ELSE it.i) + 1>>
    ELSE SlicePositions(it, len)

ItemInRange(it, len) == it.kind = "slice" \/ (it.i >= 0 - len /\ it.i < len)

\* the dimensions of index that stay in the result (slices), in order
RECURSIVE KeptDims(_, _)
KeptDims(index, k) ==
    IF k > Len(index) THEN <<>>
    ELSE (IF index[k].kind = "slice" THEN <<k>> ELSE <<>>) \o KeptDims(index, k + 1)

\* torch.Tensor.__getitem__ with a tuple of slices and integers: IndexError on
\* too many indices or an integer out of range, missing trailing indices are full
TensorGetItem(t, index) ==
    IF Len(index) > Len(t.shape) THEN [err |-> "IndexError", t |-> t]
    ELSE LET full == [k \in 1..Len(t.shape) |-> IF k <= Len(index) THEN index[k] ELSE _noop_index]
         IN IF \E k \in 1..Len(full) : ~ItemInRange(full[k], t.shape[k])
            THEN [err |-> "IndexError", t |-> t]
            ELSE LET pos == [k \in 1..Len(full) |-> ItemPositions(full[k], t.shape[k])]
                     kept == KeptDims(full, 1)
                     shape == [n \in 1..Len(kept) |-> Len(pos[kept[n]])]
                     Rank(k) == CHOOSE n \in 1..Len(kept) : kept[n] = k
                     Src(ix) == [k \in 1..Len(full) |->
                                   IF full[k].kind = "int" THEN pos[k][1] ELSE pos[k][ix[Rank(k)]]]
                 IN [err |-> "none",
                     t |-> [shape |-> shape, val |-> [ix \in Indices(shape) |-> t.val[Src(ix)]]]]

\* the index into a tensor of shape `shape` that a (longer or equal) broadcast
\* index ix reads: right-aligned, a dimension of size 1 reads its only element
BroadcastIndex(shape, ix) ==
    LET off == Len(ix) - Len(shape)
    IN [k \in 1..Len(shape) |-> IF shape[k] = 1 THEN 1 ELSE ix[k + off]]

\* torch.Tensor.expand(*shape)
TensorExpand(t, shape) ==
    [shape |-> shape, val |-> [ix \in Indices(shape) |-> t.val[BroadcastIndex(t.shape, ix)]]]

\* torch.Tensor.unsqueeze(dim), dim >= 0
TensorUnsqueeze(t, dim) ==
    LET shape == SubSeq(t.shape, 1, dim) \o <<1>> \o SubSeq(t.shape, dim + 1, Len(t.shape))
    IN [shape |-> shape,
        val |-> [ix \in Indices(shape) |->
                   t.val[SubSeq(ix, 1, dim) \o SubSeq(ix, dim + 2, Len(ix))]]]

\* torch.Tensor.repeat(*reps), Len(reps) >= t.dim(): tiles, new dimensions lead
TensorRepeat(t, reps) ==
    LET off == Len(reps) - Len(t.shape)
        shape == [k \in 1..Len(reps) |-> reps[k] * (IF k > off THEN t.shape[k - off] ELSE 1)]
    IN [shape |-> shape,
        val |-> [ix \in Indices(shape) |->
                   t.val[[k \in 1..Len(t.shape) |-> ((ix[k + off] - 1) % t.shape[k]) + 1]]]]

\* torch.Tensor.index_select(-1, dims), dims 0-based: the caller checks the range
TensorSelectFeatures(t, dims) ==
    LET shape == DropLastN(t.shape, 1) \o <<Len(dims)>>
    IN [shape |-> shape,
        val |-> [ix \in Indices(shape) |->
                   t.val[DropLastN(ix, 1) \o <<dims[ix[Len(ix)]] + 1>>]]]

\* rows a..b (1-based, inclusive) of the row dimension (-2)
TensorRowBlock(t, a, b) ==
    LET n == Len(t.shape)
        shape == [k \in 1..n |-> IF k = n - 1 THEN b - a + 1 ELSE t.shape[k]]
    IN [shape |-> shape,
        val |-> [ix \in Indices(shape) |->
                   t.val[[k \in 1..n |-> IF k = n - 1 THEN ix[k] + a - 1 ELSE ix[k]]]]]

\* torch.broadcast_shapes of two shapes: right-aligned, sizes equal or 1
BroadcastOk2(s1, s2) ==
    \A k \in 1..Min(Len(s1), Len(s2)) :
        LET a == s1[Len(s1) - k + 1]
            b == s2[Len(s2) - k + 1]
        IN a = b \/ a = 1 \/ b = 1

Broadcast2(s1, s2) ==
    LET n == Max(Len(s1), Len(s2))
        D(s, k) == IF k > n - Len(s) THEN s[k - (n - Len(s))] ELSE 1
    IN [k \in 1..n |-> IF D(s1, k) = 1 THEN D(s2, k) ELSE D(s1, k)]

\* torch.broadcast_shapes(s1, s2, s3): RuntimeError when not broadcastable
BroadcastOk(s1, s2, s3) ==
    BroadcastOk2(s1, s2) /\ BroadcastOk2(Broadcast2(s1, s2), s3)

broadcast_shapes(s1, s2, s3) == Broadcast2(Broadcast2(s1, s2), s3)

---------------------------------------------------------------------------
(* The kernel capability.  A kernel object is                              *)
(*   [theta, active_dims, num_outputs, has_size, raises, bad_shape]:       *)
(* (an external collaborator of the node, described by the specification)  *)
(* theta is its batched parameter (its shape is the kernel's batch_shape), *)
(* active_dims is None or Some(sequence of 0-based feature indices),       *)
(* num_outputs the (rows, cols) outputs-per-input factors; has_size says   *)
(* the class also defines `size`, raises that its forward raises, and      *)
(* bad_shape that its forward returns a result with an extra leading       *)
(* dimension of size 1 (the two faults debug mode looks for).              *)

batch_shape(kern) == kern.theta.shape

\* kernel.num_outputs_per_input(x1, x2): an int <<r>> or a tuple <<r, c>>
num_outputs_per_input(kern) == kern.num_outputs

num_outs_per_in_rows(kern) == num_outputs_per_input(kern)[1]

num_outs_per_in_cols(kern) ==
    IF Len(num_outputs_per_input(kern)) = 2
    THEN num_outputs_per_input(kern)[2] ELSE num_outputs_per_input(kern)[1]

\* the feature vector of point i at batch index b (b indexes the broadcast batch)
PointVec(x, b, i, feats) ==
    [k \in 1..Len(feats) |-> x.val[BroadcastIndex(BatchOf(x), b) \o <<i, feats[k]>>]]

\* the covariance function, kept symbolic: the value is the tuple of what it was
\* computed from (parameter, extra params, x1 point, x2 point, output pair), so
\* two entries are equal exactly when they were computed from the same arguments
KernelEntry(theta, params, p, q, oi, oj) ==
    [theta |-> theta, params |-> params, p |-> p, q |-> q, oi |-> oi, oj |-> oj]

AllFeats(x) == [k \in 1..Feat(x) |-> k]

\* can the kernel's forward run on these inputs
ForwardOk(kern, x1, x2) ==
    /\ ~kern.raises
    /\ Feat(x1) = Feat(x2)
    /\ BroadcastOk(BatchOf(x1), BatchOf(x2), batch_shape(kern))

\* shape of the forward result for diag=False
ForwardShape(kern, x1, x2, last_dim_is_batch) ==
    broadcast_shapes(BatchOf(x1), BatchOf(x2), batch_shape(kern))
        \o (IF last_dim_is_batch THEN <<Feat(x1)>> ELSE <<>>)
        \o <<Rows(x1) * num_outs_per_in_rows(kern), Rows(x2) * num_outs_per_in_cols(kern)>>

\* entry (b, [f,] i, j) of the covariance matrix: row i belongs to point
\* (i-1) \div r + 1 and output (i-1) % r; with last_dim_is_batch each feature
\* is its own batch and the points are one-dimensional
ForwardEntry(kern, x1, x2, last_dim_is_batch, params, ix) ==
    LET nb == Len(broadcast_shapes(BatchOf(x1), BatchOf(x2), batch_shape(kern)))
        b == SubSeq(ix, 1, nb)
        i == ix[Len(ix) - 1]
        j == ix[Len(ix)]
        r == num_outs_per_in_rows(kern)
        c == num_outs_per_in_cols(kern)
        feats1 == IF last_dim_is_batch THEN <<ix[nb + 1]>> ELSE AllFeats(x1)
        feats2 == IF last_dim_is_batch THEN <<ix[nb + 1]>> ELSE AllFeats(x2)
    IN KernelEntry(kern.theta.val[BroadcastIndex(batch_shape(kern), b)], params,
                   PointVec(x1, b, (i - 1) \div r + 1, feats1),
                   PointVec(x2, b, (j - 1) \div c + 1, feats2),
                   (i - 1) % r, (j - 1) % c)

\* the kernel's forward, diag=False: super(Kernel, kernel).__call__(x1, x2, ...)
KernelForward(kern, x1, x2, last_dim_is_batch, params) ==
    IF ~ForwardOk(kern, x1, x2) THEN [err |-> "KernelError", t |-> x1]
    ELSE LET shape == ForwardShape(kern, x1, x2, last_dim_is_batch)
             good == [shape |-> shape,
                      val |-> [ix \in Indices(shape) |->
                                 ForwardEntry(kern, x1, x2, last_dim_is_batch, params, ix)]]
         IN [err |-> "none", t |-> IF kern.bad_shape THEN TensorUnsqueeze(good, 0) ELSE good]

\* the kernel's forward, diag=True: the diagonal of the square covariance matrix
KernelForwardDiag(kern, x1, x2, last_dim_is_batch, params) ==
    IF ~ForwardOk(kern, x1, x2) \/ Rows(x1) # Rows(x2)
       \/ num_outs_per_in_rows(kern) # num_outs_per_in_cols(kern)
    THEN [err |-> "KernelError", t |-> x1]
    ELSE LET shape == DropLastN(ForwardShape(kern, x1, x2, last_dim_is_batch), 1)
             good == [shape |-> shape,
                      val |-> [ix \in Indices(shape) |->
                                 ForwardEntry(kern, x1, x2, last_dim_is_batch, params,
                                              ix \o <<ix[Len(ix)]>>)]]
         IN [err |-> "none", t |-> IF kern.bad_shape THEN TensorUnsqueeze(good, 0) ELSE good]

\* Kernel.__call__ with lazy evaluation off: restrict both inputs to the
\* kernel's active_dims when it has any (index_select raises on an index the
\* input does not have), then run the forward
KernelCall(kern, x1, x2, last_dim_is_batch, params) ==
    IF kern.active_dims = None THEN KernelForward(kern, x1, x2, last_dim_is_batch, params)
    ELSE LET dims == kern.active_dims[1]
         IN IF \E k \in 1..Len(dims) : dims[k] >= Feat(x1) \/ dims[k] >= Feat(x2)
            THEN [err |-> "IndexError", t |-> x1]
            ELSE KernelForward(kern, TensorSelectFeatures(x1, dims),
                               TensorSelectFeatures(x2, dims), last_dim_is_batch, params)

\* Kernel.__getitem__(batch_indices): a copy whose parameters are batch-indexed
KernelGetItem(kern, batch_indices) ==
    LET got == TensorGetItem(kern.theta, batch_indices)
    IN [err |-> got.err, kern |-> [kern EXCEPT !.theta = got.t]]

\* Kernel.expand_batch(shape): a copy whose parameters are expanded
KernelExpandBatch(kern, shape) == [kern EXCEPT !.theta = TensorExpand(kern.theta, shape)]

---------------------------------------------------------------------------
(* The lazy node.  A heap h is [kernels, nodes, calls]: the kernel objects *)
(* and the nodes (a reference is an index), and the log of kernel          *)
(* invocations.  A node is                                                 *)
(*   [x1, x2, kernel, last_dim_is_batch, params, x1_grad, x2_grad, cache]  *)
(* and its cache holds None or Some(value) under each memoization name.    *)
(* Settings st are [debug, checkpoint, lazy].  Every method returns an     *)
(* outcome [kernels, nodes, calls, ret]: the heap after the call and       *)
(*   ret = [op, node, args, forced, err, val, via]                         *)
(* with args the arguments of the call, forced whether the call asked for  *)
(* the evaluated operator, err "none" or the error raised (all are         *)
(* RuntimeError in the source; the names are the specification's), val the *)
(* returned value and via the identity of the evaluated operator the call  *)
(* went through (0 if none).                                               *)

Heap(k, n, c) == [kernels |-> k, nodes |-> n, calls |-> c]

HeapOf(o) == Heap(o.kernels, o.nodes, o.calls)

Ret(op, n, err, val, via) ==
    [op |-> op, node |-> n, args |-> <<>>, forced |-> FALSE, err |-> err, val |-> val, via |-> via]

\* marks an outcome as that of a request that forces evaluation
Forced(o) == [o EXCEPT !.ret.forced = TRUE]

Out(h, r) == [kernels |-> h.kernels, nodes |-> h.nodes, calls |-> h.calls, ret |-> r]

EmptyCache == [size |-> None, kernel_eval |-> None, kernel_diag |-> None, to_dense |-> None]

\* LazyEvaluatedKernelTensor(x1, x2, kernel=kernel, last_dim_is_batch=..., **params)
NewNode(x1, x2, kernel, last_dim_is_batch, params) ==
    [x1 |-> x1, x2 |-> x2, kernel |-> kernel, last_dim_is_batch |-> last_dim_is_batch,
     params |-> params, x1_grad |-> None, x2_grad |-> None, cache |-> EmptyCache]

\* one entry of the invocation log
Call(by, n, kernel, rows, diag, lazy, grad) ==
    [by |-> by, node |-> n, kernel |-> kernel, rows |-> rows, diag |-> diag,
     lazy |-> lazy, grad |-> grad]

\* the memoization utility: is a value stored under `name`, store one
InCache(node, name) == node.cache[name] # None

FromCache(node, name) == node.cache[name][1]

AddToCache(h, n, name, value) ==
    [h EXCEPT !.nodes[n].cache[name] = Some(value)]

\* (mutant) expected_size that forgets the outputs-per-input factor of the columns
expected_size_unscaled_cols(node, kern) ==
    LET x1 == node.x1
        x2 == node.x2
        num_rows == Rows(x1) * num_outs_per_in_rows(kern)
        num_cols == Rows(x2)
        withFeat(sz) ==
            IF node.last_dim_is_batch
            THEN DropLastN(sz, 2) \o <<Feat(x1)>> \o LastN(sz, 2)
            ELSE sz
    IN IF BatchOf(x1) = BatchOf(x2) /\ BatchOf(x1) = batch_shape(kern)
       THEN [err |-> "none", shape |-> withFeat(batch_shape(kern) \o <<num_rows, num_cols>>)]
       ELSE IF Feat(x1) # Feat(x2)
               \/ ~BroadcastOk(BatchOf(x1), BatchOf(x2), batch_shape(kern))
            THEN [err |-> "IncompatibleShapeError", shape |-> <<>>]
            ELSE [err |-> "none",
                  shape |-> withFeat(broadcast_shapes(BatchOf(x1), BatchOf(x2), batch_shape(kern))
                                       \o <<num_rows, num_cols>>)]

\* the shape _size computes, without the debug check and the cache
expected_size(node, kern) ==
    LET x1 == node.x1
        x2 == node.x2
        num_rows == Rows(x1) * num_outs_per_in_rows(kern)
        num_cols == Rows(x2) * num_outs_per_in_cols(kern)
        withFeat(sz) ==
            IF node.last_dim_is_batch
            THEN DropLastN(sz, 2) \o <<Feat(x1)>> \o LastN(sz, 2)
            ELSE sz
    IN IF BatchOf(x1) = BatchOf(x2) /\ BatchOf(x1) = batch_shape(kern)
       THEN [err |-> "none", shape |-> withFeat(batch_shape(kern) \o <<num_rows, num_cols>>)]
       ELSE IF Feat(x1) # Feat(x2)
               \/ ~BroadcastOk(BatchOf(x1), BatchOf(x2), batch_shape(kern))
            THEN [err |-> "IncompatibleShapeError", shape |-> <<>>]
            ELSE [err |-> "none",
                  shape |-> withFeat(broadcast_shapes(BatchOf(x1), BatchOf(x2), batch_shape(kern))
                                       \o <<num_rows, num_cols>>)]

\* @cached(name="size") _size
sized(h, n, e) ==
    IF e.err # "none"
    THEN Out(h, Ret("_size", n, e.err, <<>>, 0))
    ELSE Out(AddToCache(h, n, "size", e.shape), Ret("_size", n, "none", e.shape, 0))

_size(h, st, n) ==
    IF InCache(h.nodes[n], "size")
    THEN Out(h, Ret("_size", n, "none", FromCache(h.nodes[n], "size"), 0))
    ELSE IF st.debug /\ h.kernels[h.nodes[n].kernel].has_size
         THEN Out(h, Ret("_size", n, "ConflictingShapeDefinitionError", <<>>, 0))
         ELSE sized(h, n, expected_size(h.nodes[n], h.kernels[h.nodes[n].kernel]))

\* the end of evaluate_kernel: the debug-mode comparison of the result's shape
\* t.shape with self.shape (sz is the outcome of reading it), then the
\* operator [id, shape, val]; id is the position in the log of the invocation
\* that made it
checked_result(n, t, sz, id) ==
    IF sz.ret.err # "none"
    THEN Out(HeapOf(sz), Ret("evaluate_kernel", n, sz.ret.err, <<>>, 0))
    ELSE IF t.shape # sz.ret.val
         THEN Out(HeapOf(sz), Ret("evaluate_kernel", n, "EvaluationShapeMismatchError", <<>>, 0))
         ELSE Out(AddToCache(HeapOf(sz), n, "kernel_eval",
                             [id |-> id, shape |-> t.shape, val |-> t.val]),
                  Ret("evaluate_kernel", n, "none",
                      [id |-> id, shape |-> t.shape, val |-> t.val], id))

\* evaluate_kernel after the kernel was invoked with active_dims cleared: res
\* is what the invocation gave, h1 the heap with the invocation logged and
\* active_dims as before the call
invoked(h1, st, n, res) ==
    IF res.err # "none"
    \* the invocation raised: the line that restores active_dims is not reached
    THEN Out(Heap([h1.kernels EXCEPT ![h1.nodes[n].kernel].active_dims = None],
                  h1.nodes, h1.calls),
             Ret("evaluate_kernel", n, res.err, <<>>, 0))
    ELSE checked_result(n, res.t,
                        IF st.debug THEN _size(h1, st, n)
                        ELSE Out(h1, Ret("_size", n, "none", res.t.shape, 0)),
                        Len(h1.calls))

\* the body of evaluate_kernel
kernel_eval(h, st, n) ==
    invoked(Heap(h.kernels, h.nodes,
                 Append(h.calls, Call("evaluate_kernel", n, h.nodes[n].kernel,
                                      Rows(h.nodes[n].x1), FALSE, FALSE, FALSE))),
            st, n,
            KernelCall([h.kernels[h.nodes[n].kernel] EXCEPT !.active_dims = None],
                       h.nodes[n].x1, h.nodes[n].x2, h.nodes[n].last_dim_is_batch,
                       h.nodes[n].params))

\* (mutant) evaluate_kernel without its memoization
evaluate_kernel_uncached(h, st, n) == Forced(kernel_eval(h, st, n))

\* (mutant) evaluate_kernel that looks into the cache under debug mode only
evaluate_kernel_cached_in_debug(h, st, n) ==
    Forced(IF st.debug /\ InCache(h.nodes[n], "kernel_eval")
           THEN Out(h, Ret("evaluate_kernel", n, "none", FromCache(h.nodes[n], "kernel_eval"),
                           FromCache(h.nodes[n], "kernel_eval").id))
           ELSE kernel_eval(h, st, n))

\* @cached(name="kernel_eval") evaluate_kernel
evaluate_kernel(h, st, n) ==
    Forced(IF InCache(h.nodes[n], "kernel_eval")
           THEN Out(h, Ret("evaluate_kernel", n, "none", FromCache(h.nodes[n], "kernel_eval"),
                           FromCache(h.nodes[n], "kernel_eval").id))
           ELSE kernel_eval(h, st, n))

\* the dense tensor of an evaluated operator
Dense(op) == [shape |-> op.shape, val |-> op.val]

\* evaluate_kernel().to_dense(), e the outcome of evaluate_kernel
dense_of(n, e) ==
    IF e.ret.err # "none"
    THEN Out(HeapOf(e), Ret("to_dense", n, e.ret.err, <<>>, 0))
    ELSE Out(AddToCache(HeapOf(e), n, "to_dense", Dense(e.ret.val)),
             Ret("to_dense", n, "none", Dense(e.ret.val), e.ret.via))

\* @cached to_dense
to_dense(h, st, n) ==
    Forced(IF InCache(h.nodes[n], "to_dense")
           THEN Out(h, Ret("to_dense", n, "none", FromCache(h.nodes[n], "to_dense"),
                           FromCache(h.nodes[n], "kernel_eval").id))
           ELSE dense_of(n, evaluate_kernel(h, st, n)))

\* evaluate_kernel().representation(), e the outcome of evaluate_kernel
representation_of(n, e) ==
    IF e.ret.err # "none"
    THEN Out(HeapOf(e), Ret("representation", n, e.ret.err, <<>>, 0))
    ELSE Out(HeapOf(e), Ret("representation", n, "none", <<Dense(e.ret.val)>>, e.ret.via))

\* representation: the node's own arguments under checkpointing, else the
\* evaluated operator's representation
representation(h, st, n) ==
    IF st.checkpoint # 0
    THEN Out(h, Ret("representation", n, "none", <<h.nodes[n].x1, h.nodes[n].x2>>, 0))
    ELSE Forced(representation_of(n, evaluate_kernel(h, st, n)))

\* the position of an index tuple in row-major order, from 0
RECURSIVE FlatIndex(_, _)
FlatIndex(shape, ix) ==
    IF shape = <<>> THEN 0
    ELSE FlatIndex(DropLastN(shape, 1), DropLastN(ix, 1)) * shape[Len(shape)] + (ix[Len(ix)] - 1)

RECURSIVE Numel(_)
Numel(shape) == IF shape = <<>> THEN 1 ELSE Head(shape) * Numel(Tail(shape))

\* torch.Tensor.view(shape): the same elements in row-major order
TensorView(t, shape) ==
    [shape |-> shape,
     val |-> [ix \in Indices(shape) |->
                t.val[CHOOSE jx \in Indices(t.shape) :
                        FlatIndex(t.shape, jx) = FlatIndex(shape, ix)]]]

\* the end of _diagonal: res.view(self.shape[:-1])
viewed(h, n, t, expected_shape) ==
    IF Numel(t.shape) # Numel(expected_shape)
    THEN Out(h, Ret("_diagonal", n, "ViewError", <<>>, 0))
    ELSE Out(AddToCache(h, n, "kernel_diag", TensorView(t, expected_shape)),
             Ret("_diagonal", n, "none", TensorView(t, expected_shape), 0))

\* _diagonal after the kernel's forward gave res: the debug-mode check of its
\* shape against self.shape[:-1], then the view; sz is the outcome of reading
\* self.shape
diagonal_of(h1, st, n, res, sz) ==
    IF res.err # "none"
    THEN Out(h1, Ret("_diagonal", n, res.err, <<>>, 0))
    ELSE IF sz.ret.err # "none"
         THEN Out(HeapOf(sz), Ret("_diagonal", n, sz.ret.err, <<>>, 0))
         ELSE IF st.debug /\ res.t.shape # DropLastN(sz.ret.val, 1)
              THEN Out(HeapOf(sz), Ret("_diagonal", n, "KernelDiagonalShapeError", <<>>, 0))
              ELSE viewed(HeapOf(sz), n, res.t, DropLastN(sz.ret.val, 1))

\* the forward of node n's kernel with diag=True, logged
diagonal_forward(h, st, n) ==
    Heap(h.kernels, h.nodes,
         Append(h.calls, Call("_diagonal", n, h.nodes[n].kernel, Rows(h.nodes[n].x1),
                              TRUE, st.lazy, FALSE)))

\* @cached(name="kernel_diag") _diagonal: the kernel's forward is called
\* directly with diag=True (not through Kernel.__call__)
_diagonal(h, st, n) ==
    IF InCache(h.nodes[n], "kernel_diag")
    THEN Out(h, Ret("_diagonal", n, "none", FromCache(h.nodes[n], "kernel_diag"), 0))
    ELSE diagonal_of(diagonal_forward(h, st, n), st, n,
                     KernelForwardDiag(h.kernels[h.nodes[n].kernel], h.nodes[n].x1,
                                       h.nodes[n].x2, h.nodes[n].last_dim_is_batch,
                                       h.nodes[n].params),
                     _size(diagonal_forward(h, st, n), st, n))

---------------------------------------------------------------------------
(* Structural transforms.                                                  *)

\* isinstance(v, slice): index items carry a kind, tensors do not
IsSliceObject(v) == "kind" \in DOMAIN v /\ v.kind = "slice"

\* the evaluated operator's own _getitem(row_index, col_index, *batch_indices)
OperatorGetItem(op, row_index, col_index, batch_indices) ==
    TensorGetItem([shape |-> op.shape, val |-> op.val], batch_indices \o <<row_index, col_index>>)

\* the evaluated operator indexed: got is what its _getitem gave
indexed_operator(n, e, got) ==
    IF got.err # "none"
    THEN Out(HeapOf(e), Ret("_getitem", n, got.err, <<>>, e.ret.via))
    ELSE Out(HeapOf(e), Ret("_getitem", n, "none", got.t, e.ret.via))

\* evaluate_kernel()._getitem(...), e the outcome of evaluate_kernel
evaluated_getitem(n, e, row_index, col_index, batch_indices) ==
    IF e.ret.err # "none"
    THEN Out(HeapOf(e), Ret("_getitem", n, e.ret.err, <<>>, 0))
    ELSE indexed_operator(n, e, OperatorGetItem(e.ret.val, row_index, col_index, batch_indices))

\* self.evaluate_kernel()._getitem(row_index, col_index, *batch_indices)
getitem_evaluated(h, st, n, row_index, col_index, batch_indices) ==
    Forced(evaluated_getitem(n, evaluate_kernel(h, st, n), row_index, col_index, batch_indices))

\* the second attempt at indexing x, after x.expand(*batch_shape, *x.shape[-2:])
getitem_retry(x, bshape, index, first) ==
    IF first.err = "none" THEN first
    ELSE TensorGetItem(TensorExpand(x, bshape \o LastN(x.shape, 2)), index)

\* x[(*batch_indices, index, dim_index)], expanding x to the broadcast batch
\* shape and indexing again when the first attempt raises IndexError
getitem_expand(x, bshape, batch_indices, index, dim_index) ==
    getitem_retry(x, bshape, batch_indices \o <<index, dim_index>>,
                  TensorGetItem(x, batch_indices \o <<index, dim_index>>))

\* the second attempt at indexing the kernel, after kernel.expand_batch(batch_shape)
getitem_kernel_retry(kern, bshape, batch_indices, first) ==
    IF first.err = "none" THEN first
    ELSE KernelGetItem(KernelExpandBatch(kern, bshape), batch_indices)

\* kernel.__getitem__(batch_indices), expanding the kernel on IndexError
getitem_kernel(kern, bshape, batch_indices) ==
    getitem_kernel_retry(kern, bshape, batch_indices, KernelGetItem(kern, batch_indices))

\* the pre-processing of the row and column index of a node whose kernel has
\* several outputs per input: "evaluate" to fall back on the evaluated
\* operator, else the indices into x1 and x2
getitem_outputs_per_input(x1, x2, kern, row_index, col_index) ==
    LET r == num_outs_per_in_rows(kern)
        c == num_outs_per_in_cols(kern)
    IN IF r # 1 \/ c # 1
       THEN IF ~IsSliceObject(x1) \/ ~IsSliceObject(x2)
            THEN [path |-> "evaluate", row_index |-> row_index, col_index |-> col_index]
            ELSE IF row_index.step # None \/ col_index.step # None
                 THEN [path |-> "evaluate", row_index |-> row_index, col_index |-> col_index]
                 ELSE IF row_index.start = None \/ row_index.stop = None
                         \/ col_index.start = None \/ col_index.stop = None
                      THEN [path |-> "TypeError", row_index |-> row_index, col_index |-> col_index]
                      ELSE IF row_index.start[1] % r # 0 \/ col_index.start[1] % c # 0
                              \/ row_index.stop[1] % r # 0 \/ col_index.stop[1] % c # 0
                           THEN [path |-> "evaluate", row_index |-> row_index,
                                 col_index |-> col_index]
                           ELSE [path |-> "lazy",
                                 row_index |-> Slice(Some(row_index.start[1] \div r),
                                                     Some(row_index.stop[1] \div r), None),
                                 col_index |-> Slice(Some(col_index.start[1] \div c),
                                                     Some(col_index.stop[1] \div c), None)]
       ELSE [path |-> "lazy", row_index |-> row_index, col_index |-> col_index]

\* are all batch indices the full selection (or are there none)
AllNoop(batch_indices) ==
    Len(batch_indices) = 0 \/ \A k \in 1..Len(batch_indices) : batch_indices[k] = _noop_index

\* the end of _getitem: the kernel of the new node, and the new node over the
\* indexed x1 and x2
getitem_node(h, n, batch_indices, new_x1, new_x2, indexed) ==
    IF new_x1.err # "none" \/ new_x2.err # "none"
    THEN Out(h, Ret("_getitem", n, "IndexError", <<>>, 0))
    ELSE IF AllNoop(batch_indices)
         THEN Out(Heap(h.kernels,
                       Append(h.nodes, NewNode(new_x1.t, new_x2.t, h.nodes[n].kernel,
                                               h.nodes[n].last_dim_is_batch, h.nodes[n].params)),
                       h.calls),
                  Ret("_getitem", n, "none", Len(h.nodes) + 1, 0))
         ELSE IF indexed.err # "none"
              THEN Out(h, Ret("_getitem", n, "IndexError", <<>>, 0))
              ELSE Out(Heap(Append(h.kernels, indexed.kern),
                            Append(h.nodes, NewNode(new_x1.t, new_x2.t, Len(h.kernels) + 1,
                                                    h.nodes[n].last_dim_is_batch,
                                                    h.nodes[n].params)),
                            h.calls),
                       Ret("_getitem", n, "none", Len(h.nodes) + 1, 0))

\* _getitem from the choice of dim_index on: with last_dim_is_batch the last
\* batch index indexes the feature dimension of x1 and x2
getitem_lazy(h, n, bshape, row_index, col_index, batch_indices) ==
    IF h.nodes[n].last_dim_is_batch
    THEN IF Len(batch_indices) = 0
         THEN Out(h, Ret("_getitem", n, "ValueError", <<>>, 0))
         ELSE getitem_node(h, n, DropLastN(batch_indices, 1),
                           getitem_expand(h.nodes[n].x1, bshape, DropLastN(batch_indices, 1),
                                          row_index, batch_indices[Len(batch_indices)]),
                           getitem_expand(h.nodes[n].x2, bshape, DropLastN(batch_indices, 1),
                                          col_index, batch_indices[Len(batch_indices)]),
                           getitem_kernel(h.kernels[h.nodes[n].kernel], bshape,
                                          DropLastN(batch_indices, 1)))
    ELSE getitem_node(h, n, batch_indices,
                      getitem_expand(h.nodes[n].x1, bshape, batch_indices, row_index, _noop_index),
                      getitem_expand(h.nodes[n].x2, bshape, batch_indices, col_index, _noop_index),
                      getitem_kernel(h.kernels[h.nodes[n].kernel], bshape, batch_indices))

\* _getitem after the pre-processing pre of the row and column index
getitem_processed(h, st, n, bshape, pre, row_index, col_index, batch_indices) ==
    IF pre.path = "evaluate"
    THEN getitem_evaluated(h, st, n, row_index, col_index, batch_indices)
    ELSE IF pre.path = "TypeError"
         THEN Out(h, Ret("_getitem", n, "TypeError", <<>>, 0))
         ELSE getitem_lazy(h, n, bshape, pre.row_index, pre.col_index, batch_indices)

\* _getitem(row_index, col_index, *batch_indices).  A lazy result is a new
\* node (ret.val is its reference, ret.via 0); the fallback returns the
\* indexed evaluated operator.
_getitem(h, st, n, row_index, col_index, batch_indices) ==
    IF ~BroadcastOk(BatchOf(h.nodes[n].x1), BatchOf(h.nodes[n].x2),
                    batch_shape(h.kernels[h.nodes[n].kernel]))
    THEN Out(h, Ret("_getitem", n, "IncompatibleShapeError", <<>>, 0))
    ELSE getitem_processed(h, st, n,
                           broadcast_shapes(BatchOf(h.nodes[n].x1), BatchOf(h.nodes[n].x2),
                                            batch_shape(h.kernels[h.nodes[n].kernel])),
                           getitem_outputs_per_input(h.nodes[n].x1, h.nodes[n].x2,
                                                     h.kernels[h.nodes[n].kernel],
                                                     row_index, col_index),
                           row_index, col_index, batch_indices)

\* the outcome o reported as that of operation op
AsOp(o, op) == [o EXCEPT !.ret.op = op]

\* __getitem__ from the batch indices on: count full slices, then _getitem; sz
\* is the outcome of reading self.shape for self.dim()
getitem_slices(st, n, row_index, col_index, sz, count) ==
    IF sz.ret.err # "none"
    THEN Out(HeapOf(sz), Ret("__getitem__", n, sz.ret.err, <<>>, 0))
    ELSE AsOp(_getitem(HeapOf(sz), st, n, row_index, col_index,
                       [k \in 1..count |-> _noop_index]),
              "__getitem__")

\* self.dim(): the length of self.shape
ndim(h, st, n) == Len(_size(h, st, n).ret.val)

\* (mutant) __getitem__ that counts the batch dimensions without the feature
\* dimension of last_dim_is_batch
getitem_batch_shape_only(h, st, n, row_index, col_index) ==
    getitem_slices(st, n, row_index, col_index, _size(h, st, n),
                   ndim(h, st, n) - 2 - (IF h.nodes[n].last_dim_is_batch THEN 1 ELSE 0))

\* __getitem__((Ellipsis, row_index, col_index)) with two slices: every batch
\* dimension of the node's shape is selected in full
__getitem__(h, st, n, row_index, col_index) ==
    getitem_slices(st, n, row_index, col_index, _size(h, st, n), ndim(h, st, n) - 2)

\* a transpose that keeps x1 and x2 in place
transpose_unswapped(h, st, n) ==
    LET node == h.nodes[n]
    IN Out(Heap(h.kernels,
                Append(h.nodes, NewNode(node.x1, node.x2, node.kernel,
                                        node.last_dim_is_batch, node.params)),
                h.calls),
           Ret("_transpose_nonbatch", n, "none", Len(h.nodes) + 1, 0))

\* _transpose_nonbatch
_transpose_nonbatch(h, st, n) ==
    LET node == h.nodes[n]
    IN Out(Heap(h.kernels,
                Append(h.nodes, NewNode(node.x2, node.x1, node.kernel,
                                        node.last_dim_is_batch, node.params)),
                h.calls),
           Ret("_transpose_nonbatch", n, "none", Len(h.nodes) + 1, 0))

\* _unsqueeze_batch(dim)
_unsqueeze_batch(h, st, n, dim) ==
    LET node == h.nodes[n]
    IN Out(Heap(h.kernels,
                Append(h.nodes, NewNode(TensorUnsqueeze(node.x1, dim),
                                        TensorUnsqueeze(node.x2, dim), node.kernel,
                                        node.last_dim_is_batch, node.params)),
                h.calls),
           Ret("_unsqueeze_batch", n, "none", Len(h.nodes) + 1, 0))

\* repeat(*repeats): the last two repeats tile the rows of x1 and of x2, the
\* others the batch dimensions of both; torch raises when there are fewer
\* repeats than the tensor has dimensions
repeat(h, st, n, repeats) ==
    LET node == h.nodes[n]
        batch_repeat == DropLastN(repeats, 2)
        row_repeat == repeats[Len(repeats) - 1]
        col_repeat == repeats[Len(repeats)]
    IN IF Len(repeats) < Len(node.x1.shape) \/ Len(repeats) < Len(node.x2.shape)
       THEN Out(h, Ret("repeat", n, "RuntimeError", <<>>, 0))
       ELSE Out(Heap(h.kernels,
                     Append(h.nodes,
                            NewNode(TensorRepeat(node.x1, batch_repeat \o <<row_repeat, 1>>),
                                    TensorRepeat(node.x2, batch_repeat \o <<col_repeat, 1>>),
                                    node.kernel, node.last_dim_is_batch, node.params)),
                     h.calls),
                Ret("repeat", n, "none", Len(h.nodes) + 1, 0))

---------------------------------------------------------------------------
(* The checkpointed execution path.                                        *)

\* torch.split(x, split_size, dim=-2): the first and last row (1-based) of each
\* chunk; a tensor without rows still yields one (empty) chunk
SplitBounds(n, split_size) ==
    [k \in 1..Max((n + split_size - 1) \div split_size, 1) |->
        <<(k - 1) * split_size + 1, Min(k * split_size, n)>>]

\* the smallest element of a non-empty set of numbers
MinOf(S) == CHOOSE k \in S : \A m \in S : k <= m

\* matrix product K @ rhs, rhs two-dimensional and broadcast over K's batch: an
\* entry is the formal sum, in column order, of the products it adds up
MatMul(K, rhs) ==
    IF Len(rhs.shape) # 2 \/ K.shape[Len(K.shape)] # rhs.shape[1]
    THEN [err |-> "RuntimeError", t |-> K]
    ELSE [err |-> "none",
          t |-> [shape |-> DropLastN(K.shape, 1) \o <<rhs.shape[2]>>,
                 val |-> [ix \in Indices(DropLastN(K.shape, 1) \o <<rhs.shape[2]>>) |->
                            [j \in 1..K.shape[Len(K.shape)] |->
                               <<K.val[DropLastN(ix, 1) \o <<j>>], rhs.val[<<j, ix[Len(ix)]>>]>>]]]]

\* torch.cat([a, b], dim=-2)
Cat2(a, b) ==
    LET n == Len(a.shape)
        shape == [k \in 1..n |-> IF k = n - 1 THEN a.shape[k] + b.shape[k] ELSE a.shape[k]]
    IN [shape |-> shape,
        val |-> [ix \in Indices(shape) |->
                   IF ix[n - 1] <= a.shape[n - 1] THEN a.val[ix]
                   ELSE b.val[[k \in 1..n |-> IF k = n - 1 THEN ix[k] - a.shape[n - 1] ELSE ix[k]]]]]

\* torch.cat(ts, dim=-2) of a non-empty list
RECURSIVE Cat(_)
Cat(ts) == IF Len(ts) = 1 THEN ts[1] ELSE Cat2(Cat(DropLastN(ts, 1)), ts[Len(ts)])

\* sub_kernel_matrix._matmul(rhs), sub_kernel_matrix what the kernel gave
matmul_block(sub_kernel_matrix, rhs) ==
    IF sub_kernel_matrix.err # "none" THEN sub_kernel_matrix
    ELSE MatMul(sub_kernel_matrix.t, rhs)

\* one pass of the loop of _matmul: the kernel on (sub_x1, x2), then its
\* product with rhs; bd are the first and last row of sub_x1
matmul_chunk(kern, node, rhs, bd) ==
    matmul_block(KernelCall(kern, TensorRowBlock(node.x1, bd[1], bd[2]), node.x2,
                            node.last_dim_is_batch, node.params),
                 rhs)

\* the invocations of the kernel a chunked loop of operation op made: one for
\* each of the first done chunks
ChunkCalls(op, h, n, sub_x1s, done, grad) ==
    h.calls \o [k \in 1..done |->
                  Call(op, n, h.nodes[n].kernel, sub_x1s[k][2] - sub_x1s[k][1] + 1,
                       FALSE, FALSE, grad)]

\* the end of _matmul: res[k] is what pass k of the loop gave; the first pass
\* that raises ends the loop
matmul_cat(h, n, sub_x1s, res) ==
    LET failed == {k \in 1..Len(sub_x1s) : res[k].err # "none"}
    IN IF failed # {}
       THEN Out(Heap(h.kernels, h.nodes, ChunkCalls("_matmul", h, n, sub_x1s, MinOf(failed), FALSE)),
                Ret("_matmul", n, res[MinOf(failed)].err, <<>>, 0))
       ELSE Out(Heap(h.kernels, h.nodes, ChunkCalls("_matmul", h, n, sub_x1s, Len(sub_x1s), FALSE)),
                Ret("_matmul", n, "none", Cat([k \in 1..Len(sub_x1s) |-> res[k].t]), 0))

\* the loop of _matmul over the chunks sub_x1s of x1
matmul_split(h, n, rhs, sub_x1s) ==
    matmul_cat(h, n, sub_x1s,
               [k \in 1..Len(sub_x1s) |->
                  matmul_chunk(h.kernels[h.nodes[n].kernel], h.nodes[n], rhs, sub_x1s[k])])

\* (mutant) _matmul that takes a chunk size of 0 for "do not split"
matmul_unchecked(h, st, n, rhs) ==
    matmul_split(h, n, rhs,
                 SplitBounds(Rows(h.nodes[n].x1),
                             IF st.checkpoint = 0 THEN Max(Rows(h.nodes[n].x1), 1)
                             ELSE st.checkpoint))

\* _matmul(rhs)
_matmul(h, st, n, rhs) ==
    IF st.checkpoint = 0
    THEN Out(h, Ret("_matmul", n, "CheckpointingDisabledError", <<>>, 0))
    ELSE matmul_split(h, n, rhs, SplitBounds(Rows(h.nodes[n].x1), st.checkpoint))

\* formal sums whose order does not matter are bags: a function from the
\* terms to how often each occurs
BagAdd(a, b) ==
    [e \in DOMAIN a \cup DOMAIN b |->
        (IF e \in DOMAIN a THEN a[e] ELSE 0) + (IF e \in DOMAIN b THEN b[e] ELSE 0)]

\* elementwise sum of two gradient tensors of the same shape
GradAdd(a, b) == [shape |-> a.shape, val |-> [ix \in Indices(a.shape) |-> BagAdd(a.val[ix], b.val[ix])]]

\* the feature of the kernel's (possibly active_dims-selected) input that
\* feature f (1-based) of the node's input is, as a set (empty: not consumed)
SelectedAs(kern, f) ==
    IF kern.active_dims = None THEN {f}
    ELSE {k \in 1..Len(kern.active_dims[1]) : kern.active_dims[1][k] + 1 = f}

\* what the gradient engine accumulates, for one kernel block K computed from
\* (sub_x1, x2), into entry gx of sub_x1.grad (side = 1) or of x2.grad
\* (side = 2): one term per entry of K that was computed from that element of
\* the input and per column t of the left and right vectors, weighted by
\* left[.., i, t] * right[.., j, t]
backward_terms(kern, sub_x1, x2, last_dim_is_batch, K, left, right, side, gx) ==
    LET nb == Len(K.shape) - 2 - (IF last_dim_is_batch THEN 1 ELSE 0)
        x == IF side = 1 THEN sub_x1 ELSE x2
        per == IF side = 1 THEN num_outs_per_in_rows(kern) ELSE num_outs_per_in_cols(kern)
        Reads(ix) ==
            /\ BroadcastIndex(BatchOf(x), SubSeq(ix, 1, nb)) = DropLastN(gx, 2)
            /\ (ix[Len(ix) - (IF side = 1 THEN 1 ELSE 0)] - 1) \div per + 1 = gx[Len(gx) - 1]
            /\ SelectedAs(kern, gx[Len(gx)]) # {}
            /\ last_dim_is_batch => ix[nb + 1] \in SelectedAs(kern, gx[Len(gx)])
        Term(key) ==
            [k |-> K.val[key[1]],
             l |-> left.val[DropLastN(key[1], 1) \o <<key[2]>>],
             r |-> right.val[DropLastN(key[1], 2) \o <<key[1][Len(key[1])], key[2]>>],
             side |-> side, f |-> gx[Len(gx)]]
    IN [e \in {Term(<<ix, t>>) : ix \in {jx \in Indices(K.shape) : Reads(jx)},
                                t \in 1..left.shape[Len(left.shape)]} |->
          Cardinality({key \in {jx \in Indices(K.shape) : Reads(jx)}
                                 \X (1..left.shape[Len(left.shape)]) : Term(key) = e})]

\* the gradient of one block with respect to x (sub_x1 for side 1, x2 for side 2)
backward_grad(kern, sub_x1, x2, last_dim_is_batch, K, left, right, side, x) ==
    [shape |-> x.shape,
     val |-> [gx \in Indices(x.shape) |->
                backward_terms(kern, sub_x1, x2, last_dim_is_batch, K, left, right, side, gx)]]

\* torch.autograd.backward through one block: the gradient of the bilinear
\* form of sub_left_vecs and right_vecs is the upstream gradient, and has to
\* have the block's shape
backward_block(kern, node, sub_x1, sub_left_vecs, right_vecs, sub_kernel_matrix) ==
    IF sub_kernel_matrix.err # "none"
    THEN [err |-> sub_kernel_matrix.err, x1_grad |-> <<>>, x2_grad |-> <<>>]
    ELSE IF DropLastN(sub_left_vecs.shape, 1) # DropLastN(sub_kernel_matrix.t.shape, 1)
            \/ DropLastN(right_vecs.shape, 1)
                 # DropLastN(sub_kernel_matrix.t.shape, 2)
                     \o <<sub_kernel_matrix.t.shape[Len(sub_kernel_matrix.t.shape)]>>
            \/ sub_left_vecs.shape[Len(sub_left_vecs.shape)]
                 # right_vecs.shape[Len(right_vecs.shape)]
         THEN [err |-> "RuntimeError", x1_grad |-> <<>>, x2_grad |-> <<>>]
         ELSE [err |-> "none",
               x1_grad |-> backward_grad(kern, sub_x1, node.x2, node.last_dim_is_batch,
                                         sub_kernel_matrix.t, sub_left_vecs, right_vecs, 1, sub_x1),
               x2_grad |-> backward_grad(kern, sub_x1, node.x2, node.last_dim_is_batch,
                                         sub_kernel_matrix.t, sub_left_vecs, right_vecs, 2, node.x2)]

\* one pass of the loop of _bilinear_derivative: the kernel on (sub_x1, x2)
\* with gradients on, then backward through the block; bd and lbd are the
\* first and last row of sub_x1 and of sub_left_vecs
backward_chunk(kern, node, left_vecs, right_vecs, bd, lbd) ==
    backward_block(kern, node, TensorRowBlock(node.x1, bd[1], bd[2]),
                   TensorRowBlock(left_vecs, lbd[1], lbd[2]), right_vecs,
                   KernelCall(kern, TensorRowBlock(node.x1, bd[1], bd[2]), node.x2,
                              node.last_dim_is_batch, node.params))

\* (mutant) x2.grad that holds the last chunk's contribution only
x2_grad_of_last_chunk(res, k) == res[k].x2_grad

\* x2.grad after k passes: each backward adds to it
RECURSIVE accumulate_x2(_, _)
accumulate_x2(res, k) ==
    IF k = 1 THEN res[1].x2_grad ELSE GradAdd(accumulate_x2(res, k - 1), res[k].x2_grad)

\* the end of _bilinear_derivative: res[k] is what pass k of the loop gave, the
\* loop has as many passes as zip pairs chunks
derivative_cat(h, n, sub_x1s, pairs, res) ==
    LET failed == {k \in 1..pairs : res[k].err # "none"}
    IN IF failed # {}
       THEN Out(Heap(h.kernels, h.nodes,
                     ChunkCalls("_bilinear_derivative", h, n, sub_x1s, MinOf(failed), TRUE)),
                Ret("_bilinear_derivative", n, res[MinOf(failed)].err, <<>>, 0))
       ELSE IF pairs < Len(sub_x1s)
            \* a chunk of x1 the loop never reached has no gradient
            THEN Out(Heap(h.kernels, h.nodes,
                          ChunkCalls("_bilinear_derivative", h, n, sub_x1s, pairs, TRUE)),
                     Ret("_bilinear_derivative", n, "AttributeError", <<>>, 0))
            ELSE Out(Heap(h.kernels, h.nodes,
                          ChunkCalls("_bilinear_derivative", h, n, sub_x1s, pairs, TRUE)),
                     Ret("_bilinear_derivative", n, "none",
                         [x1_grad |-> Cat([k \in 1..pairs |-> res[k].x1_grad]),
                          x2_grad |-> accumulate_x2(res, pairs)], 0))

\* the loop of _bilinear_derivative over the zipped chunks of x1 and left_vecs
derivative_split(h, n, left_vecs, right_vecs, sub_x1s, sub_left_vecss) ==
    derivative_cat(h, n, sub_x1s, Min(Len(sub_x1s), Len(sub_left_vecss)),
                   [k \in 1..Min(Len(sub_x1s), Len(sub_left_vecss)) |->
                      backward_chunk(h.kernels[h.nodes[n].kernel], h.nodes[n], left_vecs,
                                     right_vecs, sub_x1s[k], sub_left_vecss[k])])

\* _bilinear_derivative(left_vecs, right_vecs): the gradients are those of
\* detached copies of x1 and x2, the node's own tensors are not written
_bilinear_derivative(h, st, n, left_vecs, right_vecs) ==
    IF st.checkpoint = 0
    THEN Out(h, Ret("_bilinear_derivative", n, "CheckpointingDisabledError", <<>>, 0))
    ELSE derivative_split(h, n, left_vecs, right_vecs,
                          SplitBounds(Rows(h.nodes[n].x1), st.checkpoint),
                          SplitBounds(left_vecs.shape[Len(left_vecs.shape) - 1], st.checkpoint))

---------------------------------------------------------------------------
(* The state machine: the settings, a heap of kernels and nodes, the       *)
(* invocation log and the result of the last call.                         *)

St == [debug |-> debug, checkpoint |-> checkpoint_kernel, lazy |-> lazily_evaluate_kernels]

H == Heap(kernels, nodes, calls)

Apply(o, args) ==
    /\ kernels' = o.kernels
    /\ nodes' = o.nodes
    /\ calls' = o.calls
    /\ ret' = [o.ret EXCEPT !.args = args]

Settings == <<debug, checkpoint_kernel, lazily_evaluate_kernels>>

\* a tensor whose entries are all different: off, off + 1, ... in row-major order
LabelTensor(shape, off) ==
    [shape |-> shape, val |-> [ix \in Indices(shape) |-> off + FlatIndex(shape, ix)]]

BatchShapes == {<<>>} \cup {<<b>> : b \in 1..MaxBatch}

MkKernel(bshape, active_dims, num_outputs, has_size, raises, bad_shape) ==
    [theta |-> LabelTensor(bshape, 1), active_dims |-> active_dims,
     num_outputs |-> num_outputs, has_size |-> has_size, raises |-> raises,
     bad_shape |-> bad_shape]

\* the state after the construction of one node over x1, x2 and kern
SetUp(dbg, chk, kern, x1, x2, last_dim_is_batch, params) ==
    /\ debug = dbg
    /\ checkpoint_kernel = chk
    /\ lazily_evaluate_kernels = TRUE
    /\ kernels = <<kern>>
    /\ nodes = <<NewNode(x1, x2, 1, last_dim_is_batch, params)>>
    /\ calls = <<>>
    /\ ret = Ret("__init__", 1, "none", <<>>, 0)
    /\ twin = [kernels |-> <<kern>>,
               nodes |-> <<NewNode(x1, x2, 1, last_dim_is_batch, params)>>,
               calls |-> <<>>, ret |-> Ret("__init__", 1, "none", <<>>, 0), clean |-> TRUE]

\* the slices an index draws its row and column index from
SliceBounds == {None} \cup {Some(k) : k \in (0 - MaxSlice)..MaxSlice}

UnitSlices == {Slice(a, b, k) : a \in SliceBounds, b \in SliceBounds, k \in {None, Some(1)}}

\* settings.debug(state), beta_features.checkpoint_kernel(size), used as context managers
SetDebug(b) ==
    /\ debug # b
    /\ debug' = b
    /\ ret' = Ret("settings.debug", 0, "none", <<>>, 0)
    /\ UNCHANGED <<checkpoint_kernel, lazily_evaluate_kernels, kernels, nodes, calls, twin>>

SetCheckpoint(size) ==
    /\ checkpoint_kernel # size
    /\ checkpoint_kernel' = size
    /\ ret' = Ret("beta_features.checkpoint_kernel", 0, "none", <<>>, 0)
    /\ UNCHANGED <<debug, lazily_evaluate_kernels, kernels, nodes, calls, twin>>

Size(n) ==
    /\ Apply(_size(H, St, n), <<>>)
    /\ UNCHANGED <<Settings, twin>>

Diagonal(n) ==
    /\ Len(calls) < MaxCalls
    /\ Apply(_diagonal(H, St, n), <<>>)
    /\ UNCHANGED <<Settings, twin>>

EvaluateKernel(n) ==
    /\ Len(calls) < MaxCalls
    /\ Apply(evaluate_kernel(H, St, n), <<>>)
    /\ UNCHANGED <<Settings, twin>>

ToDense(n) ==
    /\ Len(calls) < MaxCalls
    /\ Apply(to_dense(H, St, n), <<>>)
    /\ UNCHANGED <<Settings, twin>>

Representation(n) ==
    /\ Len(calls) < MaxCalls
    /\ Apply(representation(H, St, n), <<>>)
    /\ UNCHANGED <<Settings, twin>>

GetItem(n, row_index, col_index) ==
    /\ Len(calls) < MaxCalls
    /\ Len(nodes) < MaxNodes
    /\ Apply(__getitem__(H, St, n, row_index, col_index), <<row_index, col_index>>)
    /\ UNCHANGED <<Settings, twin>>

GetItemBatch(n, row_index, col_index, batch_indices) ==
    /\ Len(calls) < MaxCalls
    /\ Len(nodes) < MaxNodes
    /\ Apply(_getitem(H, St, n, row_index, col_index, batch_indices),
             <<row_index, col_index, batch_indices>>)
    /\ UNCHANGED <<Settings, twin>>

TransposeNonbatch(n) ==
    /\ Len(nodes) < MaxNodes
    /\ Apply(_transpose_nonbatch(H, St, n), <<>>)
    /\ UNCHANGED <<Settings, twin>>

UnsqueezeBatch(n, dim) ==
    /\ Len(nodes) < MaxNodes
    /\ Apply(_unsqueeze_batch(H, St, n, dim), <<dim>>)
    /\ UNCHANGED <<Settings, twin>>

Repeat(n, repeats) ==
    /\ Len(nodes) < MaxNodes
    /\ Apply(repeat(H, St, n, repeats), <<repeats>>)
    /\ UNCHANGED <<Settings, twin>>

Matmul(n, rhs) ==
    /\ Len(calls) < MaxCalls
    /\ Apply(_matmul(H, St, n, rhs), <<rhs>>)
    /\ UNCHANGED <<Settings, twin>>

BilinearDerivative(n, left_vecs, right_vecs) ==
    /\ Len(calls) < MaxCalls
    /\ Apply(_bilinear_derivative(H, St, n, left_vecs, right_vecs), <<left_vecs, right_vecs>>)
    /\ UNCHANGED <<Settings, twin>>

\* the shape of the operator a node stands for, as its kernel reports it
\* (what a caller sizes the right-hand side and the gradient vectors by)
OperatorShape(n) == ForwardShape(kernels[nodes[n].kernel], nodes[n].x1, nodes[n].x2,
                                 nodes[n].last_dim_is_batch)

\* a right-hand side with one column for node n
RhsFor(n) == LabelTensor(<<OperatorShape(n)[Len(OperatorShape(n))], 1>>, 200)

\* left and right vectors with one column for the bilinear form of node n
LeftVecsFor(n) == LabelTensor(DropLastN(OperatorShape(n), 1) \o <<1>>, 300)

RightVecsFor(n) ==
    LabelTensor(DropLastN(OperatorShape(n), 2) \o <<OperatorShape(n)[Len(OperatorShape(n))], 1>>, 400)

---------------------------------------------------------------------------
(* Spec: forced evaluation, its cache and the settings, on one node.       *)

Init ==
    \E active_dims \in {None, Some(<<0>>)}, num_outputs \in {<<1>>, <<MaxOut>>},
       has_size \in BOOLEAN, raises \in BOOLEAN, bad_shape \in BOOLEAN :
        SetUp(TRUE, 0,
              MkKernel(<<>>, active_dims, num_outputs, has_size, raises, bad_shape),
              LabelTensor(<<MaxRows, MaxFeat>>, 0), LabelTensor(<<MaxRows, MaxFeat>>, 100),
              FALSE, 0)

Next ==
    \/ \E b \in BOOLEAN : SetDebug(b)
    \/ \E size \in {0, MaxSplit} : SetCheckpoint(size)
    \/ \E n \in 1..Len(nodes) : EvaluateKernel(n)
    \/ \E n \in 1..Len(nodes) : ToDense(n)
    \/ \E n \in 1..Len(nodes) : Diagonal(n)
    \/ \E n \in 1..Len(nodes) : Representation(n)
    \/ \E n \in 1..Len(nodes) : GetItem(n, Slice(Some(0), Some(MaxOut), None), _noop_index)

Spec == Init /\ [][Next]_vars

\* the invocations evaluate_kernel made for node n
EvalCalls(log, n) ==
    Cardinality({k \in 1..Len(log) : log[k].by = "evaluate_kernel" /\ log[k].node = n})

\* the kernel of node n can be invoked on its inputs without raising
KernelSucceeds(n) ==
    KernelCall([kernels[nodes[n].kernel] EXCEPT !.active_dims = None], nodes[n].x1, nodes[n].x2,
               nodes[n].last_dim_is_batch, nodes[n].params).err = "none"

\* C1 as stated: for a node whose kernel invocation succeeds, forced-evaluation
\* requests invoke the kernel exactly once in all, and a request that returns
\* went through the operator of that one invocation.
C1_InvokedExactlyOnce ==
    \A n \in 1..Len(nodes) :
        KernelSucceeds(n) =>
            /\ EvalCalls(calls, n) <= 1
            /\ (ret.forced /\ ret.node = n) => EvalCalls(calls, n) = 1

\* C1 as amended: a forced-evaluation request on a node with nothing cached
\* invokes the kernel exactly once, and caches the operator when it completes
\* without error (a successful invocation followed by a failed debug-mode shape
\* check caches nothing); once an operator is cached it stays, no request
\* invokes the kernel again, and every request goes through that operator.
C1_OncePerRequestUntilCached ==
    [][\A n \in 1..Len(nodes) :
         LET cached == nodes[n].cache.kernel_eval
             request == ret'.forced /\ ret'.node = n
         IN /\ cached # None =>
                  /\ nodes'[n].cache.kernel_eval = cached
                  /\ EvalCalls(calls', n) = EvalCalls(calls, n)
            /\ (request /\ cached # None) => ret'.via = cached[1].id
            /\ (request /\ cached = None) => EvalCalls(calls', n) = EvalCalls(calls, n) + 1
            /\ (request /\ cached = None /\ ret'.err = "none") =>
                  /\ nodes'[n].cache.kernel_eval # None
                  /\ nodes'[n].cache.kernel_eval[1].id = ret'.via
                  /\ ret'.via = Len(calls')
            /\ ~request => EvalCalls(calls', n) = EvalCalls(calls, n)]_vars

\* a node that was evaluated after a first request failed, and has since
\* answered to_dense and representation from the cached operator
C1_Witness ==
    \E n \in 1..Len(nodes) :
        /\ KernelSucceeds(n)
        /\ EvalCalls(calls, n) = 2
        /\ nodes[n].cache.kernel_eval # None
        /\ nodes[n].cache.to_dense # None
        /\ ret.op = "representation" /\ ret.forced /\ ret.node = n /\ ret.err = "none"
        /\ ret.via = nodes[n].cache.kernel_eval[1].id

\* C2 as stated: no call changes a kernel's active_dims (after every call, on
\* every exit path, it is what it was before the call).
C2_ActiveDimsRestored ==
    [][\A k \in 1..Len(kernels) : kernels'[k].active_dims = kernels[k].active_dims]_vars

---------------------------------------------------------------------------
(* SpecSize: shape resolution, over the shapes of x1, x2 and the kernel.   *)

InitSize ==
    \E b1 \in BatchShapes, b2 \in BatchShapes, bk \in BatchShapes,
       n1 \in 1..MaxRows, d1 \in 1..MaxFeat, d2 \in 1..MaxFeat,
       num_outputs \in {<<1>>, <<MaxOut>>, <<1, MaxOut>>},
       last_dim_is_batch \in BOOLEAN, has_size \in BOOLEAN, dbg \in BOOLEAN :
        SetUp(dbg, 0, MkKernel(bk, None, num_outputs, has_size, FALSE, FALSE),
              LabelTensor(b1 \o <<n1, d1>>, 0), LabelTensor(b2 \o <<MaxRows, d2>>, 100),
              last_dim_is_batch, 0)

NextSize == \E n \in 1..Len(nodes) : Size(n)

SpecSize == InitSize /\ [][NextSize]_vars

\* the shape the specification gives a node: broadcast batch, the feature
\* dimension when last_dim_is_batch, then rows and columns times their factors
ResolvedShape(node, kern) ==
    broadcast_shapes(BatchOf(node.x1), BatchOf(node.x2), batch_shape(kern))
        \o (IF node.last_dim_is_batch THEN <<Feat(node.x1)>> ELSE <<>>)
        \o <<Rows(node.x1) * num_outs_per_in_rows(kern), Rows(node.x2) * num_outs_per_in_cols(kern)>>

Incompatible(node, kern) ==
    \/ Feat(node.x1) # Feat(node.x2)
    \/ ~BroadcastOk(BatchOf(node.x1), BatchOf(node.x2), batch_shape(kern))

SameBatch(node, kern) ==
    BatchOf(node.x1) = BatchOf(node.x2) /\ BatchOf(node.x1) = batch_shape(kern)

\* the debug-mode check of the kernel class fires before any shape is resolved
SizeConflict(node, kern) == debug /\ kern.has_size

\* C5 as stated (where the debug-mode check does not fire): _size fails with
\* IncompatibleShapeError and returns no shape for every node whose feature
\* dimensions differ or whose batch shapes are not broadcastable, and returns
\* the resolved shape otherwise.
C5_FailsOnEveryMismatch ==
    ret.op = "_size" =>
        LET node == nodes[ret.node]
            kern == kernels[node.kernel]
        IN ~SizeConflict(node, kern) =>
              IF Incompatible(node, kern)
              THEN ret.err = "IncompatibleShapeError" /\ node.cache.size = None
              ELSE ret.err = "none" /\ ret.val = ResolvedShape(node, kern)

\* C5 as amended: the feature dimensions are compared only when the three
\* batch shapes are not all identical.  With identical batch shapes _size
\* returns the resolved shape whatever the feature dimensions; otherwise it
\* fails with IncompatibleShapeError, returning and caching no shape, when the
\* feature dimensions differ or the batch shapes are not broadcastable, and
\* returns (and caches) the resolved shape when neither is the case.  Under
\* debug mode a kernel that also defines `size` fails before that.
C5_SizeResolution ==
    ret.op = "_size" =>
        LET node == nodes[ret.node]
            kern == kernels[node.kernel]
        IN IF SizeConflict(node, kern)
           THEN ret.err = "ConflictingShapeDefinitionError" /\ node.cache.size = None
           ELSE IF ~SameBatch(node, kern) /\ Incompatible(node, kern)
                THEN ret.err = "IncompatibleShapeError" /\ ret.val = <<>> /\ node.cache.size = None
                ELSE /\ ret.err = "none"
                     /\ ret.val = ResolvedShape(node, kern)
                     /\ node.cache.size = Some(ret.val)

\* a shape was returned for a node whose feature dimensions differ, and whose
\* kernel has several outputs per input and a trailing batch dimension
C5_Witness ==
    /\ ret.op = "_size" /\ ret.err = "none"
    /\ Feat(nodes[ret.node].x1) # Feat(nodes[ret.node].x2)
    /\ BatchOf(nodes[ret.node].x1) # <<>>
    /\ nodes[ret.node].last_dim_is_batch
    /\ num_outs_per_in_cols(kernels[nodes[ret.node].kernel]) # 1

---------------------------------------------------------------------------
(* SpecTransform: one structural transform or sub-indexing of a node, over *)
(* the batch shapes of x1, x2 and the kernel, the outputs-per-input        *)
(* factors and last_dim_is_batch.                                          *)

TransformBatches == {<<>>, <<1>>, <<MaxBatch>>}

InitTransform ==
    \E b1 \in TransformBatches, b2 \in TransformBatches,
       bk \in {<<>>, <<MaxBatch - 1>>, <<MaxBatch>>},
       num_outputs \in {<<1>>, <<MaxOut>>, <<1, MaxOut>>},
       last_dim_is_batch \in BOOLEAN :
        SetUp(TRUE, 0, MkKernel(bk, None, num_outputs, FALSE, FALSE, FALSE),
              LabelTensor(b1 \o <<MaxRows, MaxFeat>>, 0),
              LabelTensor(b2 \o <<MaxRows, MaxFeat>>, 100),
              last_dim_is_batch, 0)

\* the number of dimensions of node n before its rows and columns
NumBatchDims(n) ==
    Max(Max(Len(BatchOf(nodes[n].x1)), Len(BatchOf(nodes[n].x2))),
        Len(batch_shape(kernels[nodes[n].kernel])))
    + (IF nodes[n].last_dim_is_batch THEN 1 ELSE 0)

BatchItems == {_noop_index, IntIndex(0), IntIndex(MaxBatch - 1)}

RepeatsFor(n) ==
    LET L == NumBatchDims(n) + 2
    IN {[k \in 1..L |-> IF k = L - 1 THEN 2 ELSE 1], [k \in 1..L |-> 2], <<1, 2>>}

\* the nodes that were not evaluated yet
Unevaluated == {n \in 1..Len(nodes) : ~InCache(nodes[n], "kernel_eval")}

\* are both outputs-per-input factors of node n 1
SingleOutput(n) ==
    /\ num_outs_per_in_rows(kernels[nodes[n].kernel]) = 1
    /\ num_outs_per_in_cols(kernels[nodes[n].kernel]) = 1

\* the slices a node with several outputs per input is indexed with: starts and
\* stops that are and that are not multiples of the factor, with and without a step
OutputSlices ==
    {Slice(Some(0), Some(MaxOut), None), Slice(Some(MaxOut), Some(2 * MaxOut), None),
     Slice(Some(1), Some(MaxOut), None), Slice(Some(0), Some(MaxOut), Some(1)),
     Slice(None, Some(MaxOut), None)}

NextTransform ==
    \/ \E n \in Unevaluated, row_index \in UnitSlices :
         \E col_index \in {row_index, _noop_index} :
            SingleOutput(n) /\ GetItem(n, row_index, col_index)
    \/ \E n \in Unevaluated, row_index \in OutputSlices :
         \E col_index \in {row_index, _noop_index} :
            ~SingleOutput(n) /\ GetItem(n, row_index, col_index)
    \/ \E n \in Unevaluated :
         \E batch_indices \in [1..NumBatchDims(n) -> BatchItems] :
            GetItemBatch(n, Slice(Some(1), None, None), _noop_index, batch_indices)
    \/ \E n \in 1..Len(nodes) : TransposeNonbatch(n)
    \/ \E n \in 1..Len(nodes), dim \in 0..1 : UnsqueezeBatch(n, dim)
    \/ \E n \in 1..Len(nodes) : \E repeats \in RepeatsFor(n) : Repeat(n, repeats)

SpecTransform == InitTransform /\ [][NextTransform]_vars

\* the dense matrix of node n, as forcing its evaluation gives it
DenseOf(n) == to_dense(H, [debug |-> FALSE, checkpoint |-> 0, lazy |-> TRUE], n).ret

\* the index (Ellipsis, row_index, col_index) into a tensor of the given shape
EllipsisIndex(shape, row_index, col_index) ==
    [k \in 1..(Len(shape) - 2) |-> _noop_index] \o <<row_index, col_index>>

\* is sl a slice without step whose start and stop are multiples of factor
Aligned(sl, factor) ==
    /\ sl.step = None
    /\ sl.start # None /\ sl.stop # None
    /\ sl.start[1] % factor = 0 /\ sl.stop[1] % factor = 0

\* C3: sub-indexing a node whose kernel has outputs-per-input factors (r, c)
\* not both 1 with slices without step whose start and stop are multiples of
\* r resp. c does not force evaluation and returns a new lazy node over
\* x1[start/r : stop/r] and x2[start/c : stop/c].
C3_AlignedSlicesTakeFastPath ==
    (/\ ret.op = "__getitem__"
     /\ ~SingleOutput(ret.node)
     /\ BroadcastOk(BatchOf(nodes[ret.node].x1), BatchOf(nodes[ret.node].x2),
                    batch_shape(kernels[nodes[ret.node].kernel]))
     /\ Aligned(ret.args[1], num_outs_per_in_rows(kernels[nodes[ret.node].kernel]))
     /\ Aligned(ret.args[2], num_outs_per_in_cols(kernels[nodes[ret.node].kernel])))
    => /\ ret.err = "none"
       /\ ~ret.forced
       /\ ret.via = 0
       /\ ret.val \in 1..Len(nodes)
       /\ Rows(nodes[ret.val].x1)
            = (ret.args[1].stop[1] - ret.args[1].start[1])
                \div num_outs_per_in_rows(kernels[nodes[ret.node].kernel])
       /\ Rows(nodes[ret.val].x2)
            = (ret.args[2].stop[1] - ret.args[2].start[1])
                \div num_outs_per_in_cols(kernels[nodes[ret.node].kernel])
       /\ calls = <<>>

\* C4: for an index (Ellipsis, row slice, column slice) with unit step that
\* __getitem__ accepts, the dense matrix of the result equals the dense matrix
\* of the node indexed with the same index, entry by entry.
C4_SubIndexingLaw ==
    (ret.op = "__getitem__" /\ ret.err = "none")
    => /\ DenseOf(ret.node).err = "none"
       /\ IF ret.via = 0
          THEN /\ DenseOf(ret.val).err = "none"
               /\ DenseOf(ret.val).val
                    = TensorGetItem(DenseOf(ret.node).val,
                                    EllipsisIndex(DenseOf(ret.node).val.shape,
                                                  ret.args[1], ret.args[2])).t
          ELSE ret.val = TensorGetItem(DenseOf(ret.node).val,
                                       EllipsisIndex(DenseOf(ret.node).val.shape,
                                                     ret.args[1], ret.args[2])).t

\* a lazy node came out of indexing a node with last_dim_is_batch whose x2 had
\* to be expanded to the batch shape of x1, with a slice that selects one row
C4_Witness ==
    /\ ret.op = "__getitem__" /\ ret.err = "none" /\ ret.via = 0
    /\ nodes[ret.node].last_dim_is_batch
    /\ BatchOf(nodes[ret.node].x2) = <<>>
    /\ BatchOf(nodes[ret.val].x2) = <<MaxBatch>>
    /\ Rows(nodes[ret.val].x1) = 1
    /\ Rows(nodes[ret.val].x2) = MaxRows

\* the operations C9 is about: the transforms, and sub-indexing of a node whose
\* outputs-per-input factors are both 1
IsTransform(r) ==
    \/ r.op \in {"_transpose_nonbatch", "_unsqueeze_batch", "repeat"}
    \/ r.op \in {"_getitem", "__getitem__"} /\ SingleOutput(r.node)

\* the batch indices an indexing operation was given
BatchIndicesOf(r) ==
    IF r.op = "_getitem"
    THEN (IF nodes[r.node].last_dim_is_batch THEN DropLastN(r.args[3], 1) ELSE r.args[3])
    ELSE <<>>

\* C9: a transform or a sub-indexing of a single-output node never invokes the
\* kernel and never populates an evaluation cache (kernel_eval, to_dense,
\* kernel_diag); it leaves the inputs and the kernel of every existing node
\* and every existing kernel unchanged; when it succeeds it returns a new
\* lazy node with the same last_dim_is_batch and params and an empty cache
\* that reuses the kernel reference when no batch index other than the full
\* selection is given; transpose yields the node with x1 and x2 swapped.
C9_TransformsAreLazy ==
    [][IsTransform(ret')
          => /\ calls' = calls
             /\ ~ret'.forced
             /\ \A m \in 1..Len(nodes) :
                  /\ nodes'[m].x1 = nodes[m].x1 /\ nodes'[m].x2 = nodes[m].x2
                  /\ nodes'[m].kernel = nodes[m].kernel
                  /\ nodes'[m].cache.kernel_eval = nodes[m].cache.kernel_eval
                  /\ nodes'[m].cache.to_dense = nodes[m].cache.to_dense
                  /\ nodes'[m].cache.kernel_diag = nodes[m].cache.kernel_diag
             /\ \A k \in 1..Len(kernels) : kernels'[k] = kernels[k]
             /\ ret'.err # "none" => Len(nodes') = Len(nodes) /\ Len(kernels') = Len(kernels)
             /\ ret'.err = "none"
                  => /\ Len(nodes') = Len(nodes) + 1
                     /\ ret'.val = Len(nodes')
                     /\ nodes'[ret'.val].last_dim_is_batch = nodes[ret'.node].last_dim_is_batch
                     /\ nodes'[ret'.val].params = nodes[ret'.node].params
                     /\ nodes'[ret'.val].cache = EmptyCache
                     /\ AllNoop(BatchIndicesOf(ret'))
                          => /\ nodes'[ret'.val].kernel = nodes[ret'.node].kernel
                             /\ kernels' = kernels
                     /\ ret'.op = "_transpose_nonbatch"
                          => /\ nodes'[ret'.val].x1 = nodes[ret'.node].x2
                             /\ nodes'[ret'.val].x2 = nodes[ret'.node].x1]_vars

\* sub-indexing with a batch index gave a lazy node over a batch-indexed copy
\* of the kernel, and the kernel was never invoked
C9_Witness ==
    /\ ret.op = "_getitem" /\ ret.err = "none"
    /\ SingleOutput(ret.node)
    /\ ~AllNoop(BatchIndicesOf(ret))
    /\ nodes[ret.val].kernel # nodes[ret.node].kernel
    /\ batch_shape(kernels[nodes[ret.node].kernel]) = <<MaxBatch>>
    /\ batch_shape(kernels[nodes[ret.val].kernel]) = <<>>
    /\ calls = <<>>

---------------------------------------------------------------------------
(* SpecDebug: every query runs twice, on the node under debug mode and on a  *)
(* copy of it (twin) with debug mode off, as long as the run under debug     *)
(* mode completed without error.                                             *)

TH == Heap(twin.kernels, twin.nodes, twin.calls)

TSt == [debug |-> FALSE, checkpoint |-> checkpoint_kernel, lazy |-> lazily_evaluate_kernels]

\* the outcome o with debug mode on and the outcome t of the same query on the twin
Both(o, t, args) ==
    /\ twin.clean
    /\ Len(calls) < MaxCalls
    /\ Apply(o, args)
    /\ twin' = [kernels |-> t.kernels, nodes |-> t.nodes, calls |-> t.calls,
                ret |-> [t.ret EXCEPT !.args = args],
                clean |-> o.ret.err = "none"]
    /\ UNCHANGED Settings

QuerySize(n) == Both(_size(H, St, n), _size(TH, TSt, n), <<>>)

QueryDiagonal(n) == Both(_diagonal(H, St, n), _diagonal(TH, TSt, n), <<>>)

QueryEvaluateKernel(n) == Both(evaluate_kernel(H, St, n), evaluate_kernel(TH, TSt, n), <<>>)

QueryToDense(n) == Both(to_dense(H, St, n), to_dense(TH, TSt, n), <<>>)

QueryGetItem(n, row_index, col_index) ==
    Len(nodes) < MaxNodes /\
    Both(__getitem__(H, St, n, row_index, col_index),
         __getitem__(TH, TSt, n, row_index, col_index), <<row_index, col_index>>)

InitDebug ==
    \E b1 \in {<<>>, <<MaxBatch>>}, num_outputs \in {<<1>>, <<MaxOut>>},
       has_size \in BOOLEAN, raises \in BOOLEAN, bad_shape \in BOOLEAN,
       last_dim_is_batch \in BOOLEAN :
        SetUp(TRUE, 0, MkKernel(<<>>, None, num_outputs, has_size, raises, bad_shape),
              LabelTensor(b1 \o <<MaxRows, MaxFeat>>, 0),
              LabelTensor(<<MaxRows, MaxFeat>>, 100),
              last_dim_is_batch, 0)

DebugSlices ==
    {Slice(Some(0), Some(1), None), Slice(Some(1), None, None),
     Slice(Some(0), Some(MaxOut), None), _noop_index}

NextDebug ==
    \/ \E n \in 1..Min(Len(nodes), Len(twin.nodes)) : QuerySize(n)
    \/ \E n \in 1..Min(Len(nodes), Len(twin.nodes)) : QueryDiagonal(n)
    \/ \E n \in 1..Min(Len(nodes), Len(twin.nodes)) : QueryEvaluateKernel(n)
    \/ \E n \in 1..Min(Len(nodes), Len(twin.nodes)) : QueryToDense(n)
    \/ \E n \in 1..Min(Len(nodes), Len(twin.nodes)) :
         \E row_index \in DebugSlices, col_index \in DebugSlices :
            QueryGetItem(n, row_index, col_index)

SpecDebug == InitDebug /\ [][NextDebug]_vars

\* the nodes without their memoized shapes (the debug checks of
\* evaluate_kernel and _diagonal read self.shape, which memoizes it)
WithoutShapes(ns) == [m \in 1..Len(ns) |-> [ns[m] EXCEPT !.cache.size = <<>>]]

\* C8: as long as a sequence of queries (shape, diagonal, evaluate_kernel,
\* to_dense, indexing) completed without error under debug mode, the same
\* sequence with debug mode off returned the same results, performed the same
\* kernel invocations and left the same nodes, evaluation caches and kernels.
C8_DebugIsPureDiagnostic ==
    twin.clean => /\ twin.ret = ret
                  /\ twin.calls = calls
                  /\ WithoutShapes(twin.nodes) = WithoutShapes(nodes)
                  /\ twin.kernels = kernels

\* three queries completed without error under debug mode, the kernel was
\* invoked for the diagonal and for the full evaluation, and the last query
\* was served from the cache
C8_Witness ==
    /\ twin.clean
    /\ Len(calls) = 2
    /\ \E k \in 1..Len(calls) : calls[k].diag
    /\ \E k \in 1..Len(calls) : ~calls[k].diag
    /\ ret.op = "to_dense"
    /\ InCache(nodes[ret.node], "to_dense")
    /\ InCache(nodes[ret.node], "kernel_eval")

---------------------------------------------------------------------------
(* SpecChunk: the checkpointed matmul and gradient of one node, over the   *)
(* number of rows of x1, the chunk size, the kernel's active_dims and      *)
(* outputs per input, a batch dimension and last_dim_is_batch.             *)

\* the input a node holds for data x: the data itself when the node is
\* constructed directly, the features the kernel is active on when the node is
\* made by applying the kernel to the data under lazy evaluation
NodeInput(x, active_dims, selected) ==
    IF selected /\ active_dims # None THEN TensorSelectFeatures(x, active_dims[1]) ELSE x

InitChunk ==
    \E rows \in 0..MaxRows, b1 \in {<<>>, <<MaxBatch - 1>>},
       active_dims \in {None, Some(<<0>>), Some(<<MaxFeat - 1>>)},
       selected \in BOOLEAN,
       num_outputs \in {<<1>>, <<MaxOut>>},
       last_dim_is_batch \in BOOLEAN :
        SetUp(FALSE, 0, MkKernel(<<>>, active_dims, num_outputs, FALSE, FALSE, FALSE),
              NodeInput(LabelTensor(b1 \o <<rows, MaxFeat>>, 0), active_dims, selected),
              NodeInput(LabelTensor(<<MaxRows, MaxFeat>>, 100), active_dims, selected),
              last_dim_is_batch, 0)

NextChunk ==
    \/ \E size \in 0..MaxSplit : SetCheckpoint(size)
    \/ \E n \in 1..Len(nodes) : Matmul(n, RhsFor(n))
    \/ \E n \in 1..Len(nodes) : BilinearDerivative(n, LeftVecsFor(n), RightVecsFor(n))
    \/ \E n \in 1..Len(nodes) : EvaluateKernel(n)

SpecChunk == InitChunk /\ [][NextChunk]_vars

\* the number of chunks of at most s rows that cover n rows
CeilDiv(n, s) == (n + s - 1) \div s

\* the entries a step added to the invocation log
NewCalls == SubSeq(calls', Len(calls) + 1, Len(calls'))

\* the rows of the invocations in log are consecutive chunks of at most s rows
\* that cover n rows: all chunks hold s rows but the last, which holds the rest
CoversInOrder(log, n, s) ==
    /\ Len(log) = CeilDiv(n, s)
    /\ \A k \in 1..Len(log) : log[k].rows = (IF k < Len(log) THEN s ELSE n - (Len(log) - 1) * s)

\* C6: with the chunk size 0, _matmul and _bilinear_derivative fail with
\* CheckpointingDisabledError without invoking the kernel and without changing
\* any kernel, node, gradient or cache entry.
C6_DisabledCheckpointingFails ==
    [][(ret'.op \in {"_matmul", "_bilinear_derivative"} /\ checkpoint_kernel = 0)
          => /\ ret'.err = "CheckpointingDisabledError"
             /\ ret'.val = <<>>
             /\ calls' = calls
             /\ nodes' = nodes
             /\ kernels' = kernels]_vars

\* both chunked operations failed on a node that was evaluated before, and its
\* cache still holds the operator
C6_Witness ==
    /\ ret.op = "_bilinear_derivative"
    /\ ret.err = "CheckpointingDisabledError"
    /\ checkpoint_kernel = 0
    /\ InCache(nodes[ret.node], "kernel_eval")
    /\ \E k \in 1..Len(calls) : calls[k].by = "_matmul"

\* the product of the fully evaluated kernel matrix of node n with rhs
FullProduct(n, rhs) ==
    MatMul(Dense(evaluate_kernel(H, [debug |-> FALSE, checkpoint |-> 0, lazy |-> TRUE], n).ret.val),
           rhs)

\* C7 (for x1 with at least one row): with a positive chunk size s, _matmul
\* invokes the kernel once for each of the ceil(n/s) consecutive chunks of at
\* most s rows of x1, each time with lazy evaluation off, and its result
\* equals the product of the fully evaluated kernel matrix with the same
\* right-hand side.
C7_CheckpointedMatmulEquivalence ==
    [][(ret'.op = "_matmul" /\ checkpoint_kernel > 0 /\ Rows(nodes[ret'.node].x1) > 0)
          => /\ CoversInOrder(NewCalls, Rows(nodes[ret'.node].x1), checkpoint_kernel)
             /\ \A k \in 1..Len(NewCalls) : ~NewCalls[k].lazy /\ NewCalls[k].by = "_matmul"
             /\ ret'.err = "none"
             /\ ret'.val = FullProduct(ret'.node, ret'.args[1]).t]_vars

\* the gradients of the bilinear form through the whole kernel matrix of node
\* n, computed in one block
WholeGradient(n, left_vecs, right_vecs) ==
    backward_chunk(kernels[nodes[n].kernel], nodes[n], left_vecs, right_vecs,
                   <<1, Rows(nodes[n].x1)>>, <<1, left_vecs.shape[Len(left_vecs.shape) - 1]>>)

====
